---------------------------- MODULE Spec2Model ----------------------------
(***************************************************************************)
(* Model of src/spotify_comparer.py: the four steps of the comparator      *)
(* (get_spotify_tracks, get_local_tracks, find_missing_tracks,             *)
(* create_missing_playlist).  Strings are sequences of code points, so     *)
(* that str.lower, str.endswith, whitespace tokenisation, sorting and the  *)
(* edit-distance ratio are computed, not assumed.                          *)
(***************************************************************************)
EXTENDS Integers, Sequences, FiniteSets, TLC

VARIABLES
    results,         \* get_spotify_tracks: the current result page, or None
    tracks,          \* get_spotify_tracks: the labels collected so far
    served,          \* history: the pages the playlist API has returned
    fetch_pc,        \* get_spotify_tracks: position in the function
    files,           \* get_local_tracks: the files os.walk yields, in order
    file_i,          \* get_local_tracks: index of the next file to examine
    local_pc,        \* get_local_tracks: position in the function
    spotify_tracks,  \* find_missing_tracks: first argument (a list, by reference)
    local_tracks,    \* list built by get_local_tracks / second argument of find_missing_tracks
    threshold,       \* find_missing_tracks: third argument
    missing_tracks,  \* value returned by find_missing_tracks / argument of create_missing_playlist
    prev_missing,    \* history: value returned by the previous call of find_missing_tracks
    ncalls,          \* history: number of calls of find_missing_tracks made
    pub_pc,          \* create_missing_playlist: position in the function
    pub_i,           \* create_missing_playlist: index of the next label to search
    uris,            \* create_missing_playlist: identifiers collected
    new_playlist,    \* create_missing_playlist: the playlist object created, or None
    pub_ret,         \* create_missing_playlist: returned value
    calls,           \* history: remote calls issued by create_missing_playlist
    remote_playlists,\* remote state: contents of each playlist created in the account
    log,             \* lines written through logging
    error            \* the exception that ended the function, or "none"

fetchVars == <<results, tracks, served, fetch_pc>>
scanVars  == <<files, file_i, local_pc>>
recVars   == <<spotify_tracks, threshold, prev_missing, ncalls>>
pubVars   == <<pub_pc, pub_i, uris, new_playlist, pub_ret, calls, remote_playlists>>
vars == <<results, tracks, served, fetch_pc, files, file_i, local_pc,
          spotify_tracks, local_tracks, threshold, missing_tracks, prev_missing,
          ncalls, pub_pc, pub_i, uris, new_playlist, pub_ret, calls,
          remote_playlists, log, error>>

None == "None"

\* None where a result page is expected.
NonePage == [none |-> TRUE]

\* Bounds of the model.
MaxRemote == 3
MaxLocal == 2
MaxPages == 2
MaxItems == 2
MaxFiles == 3
MaxMissing == 3

SeqsUpTo(S, n) == UNION {[1..k -> S] : k \in 0..n}

Range(s) == {s[i] : i \in DOMAIN s}

(***************************************************************************)
(* Strings.  A string is a sequence of code points: 32 is the space,       *)
(* 45 '-', 46 '.', 48..57 digits, 65..90 'A'..'Z', 97..122 'a'..'z'.       *)
(***************************************************************************)

\* f"{artist} - {title}"
TrackLabel(artist, title) == artist \o <<32, 45, 32>> \o title

\* str.lower on one character (ASCII).
LowerChar(c) == IF c >= 65 /\ c <= 90 THEN c + 32 ELSE c

\* str.lower
Lower(s) == [i \in DOMAIN s |-> LowerChar(s[i])]

\* str.endswith(suffix)
EndsWith(s, suffix) ==
    /\ Len(suffix) <= Len(s)
    /\ SubSeq(s, Len(s) - Len(suffix) + 1, Len(s)) = suffix


(***************************************************************************)
(* rapidfuzz.fuzz.token_sort_ratio, the scorer of line 94: split both      *)
(* strings on whitespace, sort the tokens, join them with one space, and   *)
(* take the normalised Indel similarity (insertions and deletions only) of *)
(* the two joined strings, scaled to 0..100.  A score is kept as the exact *)
(* fraction num/den, so that comparisons are those of the real values.     *)
(***************************************************************************)

IsSpace(c) == c \in {9, 10, 11, 12, 13, 32}

\* str.split(): the maximal runs of non-whitespace characters, in order.
RECURSIVE SplitFrom(_, _, _, _)
SplitFrom(s, i, cur, acc) ==
    IF i > Len(s)
    THEN IF cur = <<>> THEN acc ELSE Append(acc, cur)
    ELSE IF IsSpace(s[i])
         THEN SplitFrom(s, i + 1, <<>>, IF cur = <<>> THEN acc ELSE Append(acc, cur))
         ELSE SplitFrom(s, i + 1, Append(cur, s[i]), acc)

Split(s) == SplitFrom(s, 1, <<>>, <<>>)

\* a < b for strings: lexicographic on code points.
RECURSIVE StrLess(_, _)
StrLess(a, b) ==
    IF b = <<>> THEN FALSE
    ELSE IF a = <<>> THEN TRUE
    ELSE IF Head(a) # Head(b) THEN Head(a) < Head(b)
    ELSE StrLess(Tail(a), Tail(b))

\* sorted(tokens): stable insertion of each token after the tokens <= it.
RECURSIVE InsertSorted(_, _)
InsertSorted(tok, sortedToks) ==
    IF sortedToks = <<>> THEN <<tok>>
    ELSE IF StrLess(tok, Head(sortedToks)) THEN <<tok>> \o sortedToks
    ELSE <<Head(sortedToks)>> \o InsertSorted(tok, Tail(sortedToks))

RECURSIVE Sorted(_)
Sorted(toks) ==
    IF toks = <<>> THEN <<>>
    ELSE InsertSorted(toks[Len(toks)], Sorted(SubSeq(toks, 1, Len(toks) - 1)))

\* " ".join(tokens)
RECURSIVE Join(_)
Join(toks) ==
    IF toks = <<>> THEN <<>>
    ELSE IF Len(toks) = 1 THEN toks[1]
    ELSE toks[1] \o <<32>> \o Join(Tail(toks))

Max2(a, b) == IF a >= b THEN a ELSE b

\* One row of the longest-common-subsequence table: row[j + 1] is the length
\* of the LCS of the prefix of s1 ending in character c and s2[1..j].
RECURSIVE LcsRow(_, _, _, _, _)
LcsRow(prev, c, s2, j, cur) ==
    IF j > Len(s2) THEN cur
    ELSE LcsRow(prev, c, s2, j + 1,
                Append(cur, IF c = s2[j] THEN prev[j] + 1
                            ELSE Max2(prev[j + 1], cur[j])))

RECURSIVE LcsRows(_, _, _, _)
LcsRows(s1, s2, i, prev) ==
    IF i > Len(s1) THEN prev
    ELSE LcsRows(s1, s2, i + 1, LcsRow(prev, s1[i], s2, 1, <<0>>))

LcsLen(s1, s2) == LcsRows(s1, s2, 1, [j \in 1..(Len(s2) + 1) |-> 0])[Len(s2) + 1]

\* Indel distance: the insertions and deletions turning s1 into s2.
IndelDistance(s1, s2) == Len(s1) + Len(s2) - 2 * LcsLen(s1, s2)

\* fuzz.ratio: 100 * (1 - distance / (len1 + len2)); two empty strings score 100.
Ratio(s1, s2) ==
    LET maximum == Len(s1) + Len(s2)
    IN  IF maximum = 0 THEN [num |-> 100, den |-> 1]
        ELSE [num |-> 100 * (maximum - IndelDistance(s1, s2)), den |-> maximum]

ScoreLess(a, b) == a.num * b.den < b.num * a.den

ScoreEq(a, b) == a.num * b.den = b.num * a.den

ScoreZero == [num |-> 0, den |-> 1]

ScoreOptimal == [num |-> 100, den |-> 1]

\* The labels the reconciliation is exercised on:
\*   "a - x y", "a - y x" (same tokens, other order), "a - x", "b - z".
Labels ==
    { TrackLabel(<<97>>, <<120, 32, 121>>), TrackLabel(<<97>>, <<121, 32, 120>>),
      TrackLabel(<<97>>, <<120>>), TrackLabel(<<98>>, <<122>>) }

\* The ratio of the sorted-token strings of s1 and s2.
SortedRatio(s1, s2) == Ratio(Join(Sorted(Split(s1))), Join(Sorted(Split(s2))))

\* SortedRatio on the labels, computed once.
RatioOfLabels == [s1 \in Labels, s2 \in Labels |-> SortedRatio(s1, s2)]

\* fuzz.token_sort_ratio(s1, s2, score_cutoff=cutoff): a score below the
\* cutoff is reported as 0.  No cutoff (None) is the cutoff 0.
token_sort_ratio(s1, s2, cutoff) ==
    LET score == IF s1 \in Labels /\ s2 \in Labels
                 THEN RatioOfLabels[s1, s2]
                 ELSE SortedRatio(s1, s2)
    IN  IF ScoreLess(score, cutoff) THEN ScoreZero ELSE score

(***************************************************************************)
(* rapidfuzz.process.extractOne(query, choices, scorer=token_sort_ratio):  *)
(* no processor, no score_cutoff.  The choices are scored in list order;   *)
(* a choice replaces the result only when it scores strictly higher, the   *)
(* best score so far becomes the scorer's cutoff, and a score of 100 ends  *)
(* the scan.  The result is the tuple (choice, score, index), or None,     *)
(* written <<>>, exactly when there is no choice.                          *)
(***************************************************************************)
RECURSIVE ExtractFrom(_, _, _, _)
ExtractFrom(query, choices, k, result) ==
    IF k > Len(choices) THEN result
    ELSE LET cutoff == IF result = <<>> THEN ScoreZero ELSE result[2]
             score  == token_sort_ratio(query, choices[k], cutoff)
             better == result = <<>> \/ ScoreLess(result[2], score)
             next   == IF better THEN <<choices[k], score, k - 1>> ELSE result
         IN  IF better /\ ScoreEq(score, ScoreOptimal) THEN next
             ELSE ExtractFrom(query, choices, k + 1, next)

extractOne(query, choices) == ExtractFrom(query, choices, 1, <<>>)

(***************************************************************************)
(* find_missing_tracks (lines 90-99).  Python passes both lists by         *)
(* reference, so the function works on a frame h holding the caller's      *)
(* lists; what the caller sees afterwards is what the frame holds.         *)
(***************************************************************************)

\* Mutant of BelowThreshold: match[1] <= threshold.
BelowOrAtThreshold(score, t) == score.num <= t * score.den

\* match[1] < threshold
BelowThreshold(score, t) == score.num < t * score.den

\* Mutant of LoopBody: a missing label is put in front of the list.
LoopBodyPrepend(h, sp_song) ==
    LET match == extractOne(sp_song, h.local_tracks)
    IN  IF match = <<>> \/ BelowThreshold(match[2], h.threshold)
        THEN [h EXCEPT !.missing = <<sp_song>> \o @]
        ELSE h

\* Mutant of LoopBody: "if match and match[1] < threshold".
LoopBodyNeedsMatch(h, sp_song) ==
    LET match == extractOne(sp_song, h.local_tracks)
    IN  IF match # <<>> /\ BelowThreshold(match[2], h.threshold)
        THEN [h EXCEPT !.missing = Append(@, sp_song)]
        ELSE h

\* Mutant of LoopBody: a local label that matched is taken out of the
\* local list, so that it matches one remote label only.
LoopBodyConsume(h, sp_song) ==
    LET match == extractOne(sp_song, h.local_tracks)
    IN  IF match = <<>> \/ BelowThreshold(match[2], h.threshold)
        THEN [h EXCEPT !.missing = Append(@, sp_song)]
        ELSE [h EXCEPT !.local_tracks =
                  SubSeq(@, 1, match[3]) \o SubSeq(@, match[3] + 2, Len(@))]

\* Lines 94-96: the body of the loop, for one remote label.
LoopBody(h, sp_song) ==
    LET match == extractOne(sp_song, h.local_tracks)
    IN  IF match = <<>> \/ BelowThreshold(match[2], h.threshold)
        THEN [h EXCEPT !.missing = Append(@, sp_song)]
        ELSE h

\* Line 93: for sp_song in spotify_tracks
RECURSIVE ForEachSong(_, _)
ForEachSong(h, i) ==
    IF i > Len(h.spotify_tracks) THEN h
    ELSE ForEachSong(LoopBody(h, h.spotify_tracks[i]), i + 1)

find_missing_tracks(sp_tracks, loc_tracks, t) ==
    ForEachSong([spotify_tracks |-> sp_tracks, local_tracks |-> loc_tracks,
                 threshold |-> t, missing |-> <<>>], 1)

\* Thresholds: the default of line 90, scores the labels reach (60, 100),
\* the lowest score and a value above every score.
Thresholds == {0, 60, 80, 100, 101}

\* One call of find_missing_tracks, as main makes it at line 133.
FindMissingTracks ==
    /\ ncalls < 2
    /\ LET h == find_missing_tracks(spotify_tracks, local_tracks, threshold)
       IN  /\ spotify_tracks' = h.spotify_tracks
           /\ local_tracks' = h.local_tracks
           /\ missing_tracks' = h.missing
           /\ log' = Append(log, <<"INFO", "Identified missing tracks", Len(h.missing)>>)
    /\ prev_missing' = missing_tracks
    /\ ncalls' = ncalls + 1
    /\ UNCHANGED <<threshold, error>>
    /\ UNCHANGED <<fetchVars, scanVars, pubVars>>

\* The variables of the steps a specification does not exercise.
FetchIdle == results = NonePage /\ tracks = <<>> /\ served = <<>> /\ fetch_pc = "idle"
ScanIdle == files = <<>> /\ file_i = 1 /\ local_pc = "idle"
RecIdle == spotify_tracks = <<>> /\ threshold = 80 /\ prev_missing = <<>> /\ ncalls = 0
PubIdle ==
    /\ pub_pc = "idle" /\ pub_i = 1 /\ uris = <<>> /\ new_playlist = None
    /\ pub_ret = None /\ calls = <<>> /\ remote_playlists = <<>>

InitReconcile ==
    /\ spotify_tracks \in SeqsUpTo(Labels, MaxRemote)
    /\ local_tracks \in SeqsUpTo(Labels, MaxLocal)
    /\ threshold \in Thresholds
    /\ missing_tracks = <<>>
    /\ prev_missing = <<>>
    /\ ncalls = 0
    /\ log = <<>>
    /\ error = "none"
    /\ FetchIdle /\ ScanIdle /\ PubIdle

NextReconcile == FindMissingTracks

SpecReconcile == InitReconcile /\ [][NextReconcile]_vars

(***************************************************************************)
(* get_spotify_tracks (lines 50-65).  The playlist API answers each call   *)
(* with one page: a list of items and a cursor to the next page ("next",   *)
(* None on the last page).  An item holds a track: None for an unavailable *)
(* entry, else a dictionary that should hold "name" and a non-empty list   *)
(* "artists" of dictionaries holding "name".  A remote call may also fail  *)
(* (authentication, network), which raises.                                *)
(***************************************************************************)

NoneTrack == [none |-> TRUE]

\* The tracks a page may hold: unavailable; "a - x"; "b - z" with a second
\* artist; a track with an empty artist list; a track without "name".
TrackPool ==
    { NoneTrack,
      [name |-> <<120>>, artists |-> << [name |-> <<97>>] >>],
      [name |-> <<122>>, artists |-> << [name |-> <<98>>], [name |-> <<97>>] >>],
      [name |-> <<120>>, artists |-> << >>],
      [artists |-> << [name |-> <<97>>] >>] }

ItemPool == {[track |-> t] : t \in TrackPool}

PagePool == {[items |-> its, next |-> n] : its \in SeqsUpTo(ItemPool, MaxItems), n \in BOOLEAN}

\* "if track:" -- None is false, a dictionary with keys is true.
Truthy(track) == track # NoneTrack

\* Lines 59-61 for one track: the label, or the exception the lookups raise.
ItemLabel(track) ==
    IF "name" \notin DOMAIN track THEN [error |-> "KeyError"]
    ELSE IF "artists" \notin DOMAIN track THEN [error |-> "KeyError"]
    ELSE IF track.artists = <<>> THEN [error |-> "IndexError"]
    ELSE IF "name" \notin DOMAIN track.artists[1] THEN [error |-> "KeyError"]
    ELSE [error |-> "none", label |-> TrackLabel(track.artists[1].name, track.name)]

\* Lines 56-61: for item in results['items'], from the k-th item on.
RECURSIVE ForEachItem(_, _, _)
ForEachItem(items, k, acc) ==
    IF k > Len(items) THEN [tracks |-> acc, error |-> "none"]
    ELSE LET track == items[k].track
         IN  IF ~Truthy(track) THEN ForEachItem(items, k + 1, acc)
             ELSE LET r == ItemLabel(track)
                  IN  IF r.error # "none" THEN [tracks |-> acc, error |-> r.error]
                      ELSE ForEachItem(items, k + 1, Append(acc, r.label))

\* Mutant of HasNext: the cursor is never followed.
HasNextNever(page) == FALSE

\* results['next'] is true
HasNext(page) == page.next

\* The answers the API can give to the next call: a page, whose cursor is
\* None when the chain has reached its length bound.
Answers == {p \in PagePool : p.next => Len(served) + 1 < MaxPages}

\* Line 52: the first call, sp.playlist_items, and line 53.
FetchStart ==
    /\ fetch_pc = "start"
    /\ \/ /\ error' = "network"
          /\ fetch_pc' = "raised"
          /\ UNCHANGED <<results, served>>
       \/ \E p \in Answers :
              /\ results' = p
              /\ served' = Append(served, p)
              /\ fetch_pc' = "loop"
              /\ UNCHANGED error
    /\ tracks' = <<>>
    /\ UNCHANGED <<log, local_tracks, missing_tracks>>
    /\ UNCHANGED <<scanVars, recVars, pubVars>>

\* Lines 55-62: one turn of "while results": the items of the page, then the
\* cursor.
FetchPage ==
    /\ fetch_pc = "loop"
    /\ results # NonePage
    /\ LET r == ForEachItem(results.items, 1, tracks)
       IN  /\ tracks' = r.tracks
           /\ IF r.error # "none"
              THEN /\ error' = r.error
                   /\ fetch_pc' = "raised"
                   /\ UNCHANGED <<results, served>>
              ELSE IF HasNext(results)
              THEN \/ /\ error' = "network"
                      /\ fetch_pc' = "raised"
                      /\ UNCHANGED <<results, served>>
                   \/ \E p \in Answers :
                          /\ results' = p
                          /\ served' = Append(served, p)
                          /\ UNCHANGED <<fetch_pc, error>>
              ELSE /\ results' = NonePage
                   /\ UNCHANGED <<served, fetch_pc, error>>
    /\ UNCHANGED <<log, local_tracks, missing_tracks>>
    /\ UNCHANGED <<scanVars, recVars, pubVars>>

\* Lines 55, 64-65: the loop ends, the count is logged, the list returned.
FetchReturn ==
    /\ fetch_pc = "loop"
    /\ results = NonePage
    /\ fetch_pc' = "returned"
    /\ log' = Append(log, <<"INFO", "Fetched tracks", Len(tracks)>>)
    /\ UNCHANGED <<results, tracks, served, error, local_tracks, missing_tracks>>
    /\ UNCHANGED <<scanVars, recVars, pubVars>>

InitFetch ==
    /\ results = NonePage /\ tracks = <<>> /\ served = <<>> /\ fetch_pc = "start"
    /\ local_tracks = <<>> /\ missing_tracks = <<>>
    /\ log = <<>> /\ error = "none"
    /\ ScanIdle /\ RecIdle /\ PubIdle

NextFetch == FetchStart \/ FetchPage \/ FetchReturn

SpecFetch == InitFetch /\ [][NextFetch]_vars

\* The interpreter runs the function to its end: it does not stop between
\* two statements.
SpecFetchFair == SpecFetch /\ WF_vars(NextFetch)

(***************************************************************************)
(* get_local_tracks (lines 70-85).  os.walk yields the files of the tree;  *)
(* a file is its bare name and what EasyID3 does on it: it raises, or it   *)
(* gives a tag dictionary whose keys "artist" and "title", when present,   *)
(* hold lists of strings.                                                  *)
(***************************************************************************)

\* (".mp3", ".flac", ".wav") of line 75
Extensions == { <<46, 109, 112, 51>>, <<46, 102, 108, 97, 99>>, <<46, 119, 97, 118>> }

\* "Unknown" of line 79
Unknown == <<85, 110, 107, 110, 111, 119, 110>>

\* The files a tree may hold:
\*   "a.mp3" tagged artist "a", title "x";   "b.MP3" on which EasyID3 raises;
\*   "c.flac" on which EasyID3 raises;       "d.Wav" with a title and no artist;
\*   "e.txt";                                "mp3" (no dot), tagged;
\*   "f.mp3" whose artist list is empty;     "g.wav" with no tag at all.
FilePool ==
    { [name |-> <<97, 46, 109, 112, 51>>,
       meta |-> [raises |-> FALSE, artist |-> << <<97>> >>, title |-> << <<120>> >>]],
      [name |-> <<98, 46, 77, 80, 51>>, meta |-> [raises |-> TRUE]],
      [name |-> <<99, 46, 102, 108, 97, 99>>, meta |-> [raises |-> TRUE]],
      [name |-> <<100, 46, 87, 97, 118>>,
       meta |-> [raises |-> FALSE, title |-> << <<121>> >>]],
      [name |-> <<101, 46, 116, 120, 116>>, meta |-> [raises |-> TRUE]],
      [name |-> <<109, 112, 51>>,
       meta |-> [raises |-> FALSE, artist |-> << <<97>> >>, title |-> << <<120>> >>]],
      [name |-> <<102, 46, 109, 112, 51>>,
       meta |-> [raises |-> FALSE, artist |-> << >>, title |-> << <<122>> >>]],
      [name |-> <<103, 46, 119, 97, 118>>, meta |-> [raises |-> FALSE]] }

\* Mutant of Qualifies: the extension is compared without file.lower().
QualifiesCaseSensitive(file) == \E ext \in Extensions : EndsWith(file, ext)

\* Line 75: file.lower().endswith((".mp3", ".flac", ".wav"))
Qualifies(file) == \E ext \in Extensions : EndsWith(Lower(file), ext)

\* meta.get(key, default)
MetaGet(meta, key, default) == IF key \in DOMAIN meta THEN meta[key] ELSE default

\* Lines 77-83 for one file: the label built from the tags, or the bare file
\* name when EasyID3 or a lookup raises.
FileLabel(f) ==
    IF f.meta.raises THEN f.name
    ELSE LET artists == MetaGet(f.meta, "artist", <<Unknown>>)
             titles  == MetaGet(f.meta, "title", <<f.name>>)
         IN  IF artists = <<>> \/ titles = <<>> THEN f.name
             ELSE TrackLabel(artists[1], titles[1])

\* Lines 74-83: one file of the walk.
ScanFile ==
    /\ local_pc = "loop"
    /\ file_i <= Len(files)
    /\ local_tracks' = IF Qualifies(files[file_i].name)
                       THEN Append(local_tracks, FileLabel(files[file_i]))
                       ELSE local_tracks
    /\ file_i' = file_i + 1
    /\ UNCHANGED <<files, local_pc, log, error, missing_tracks>>
    /\ UNCHANGED <<fetchVars, recVars, pubVars>>

\* Lines 84-85: the walk is over, the count is logged, the list returned.
ScanReturn ==
    /\ local_pc = "loop"
    /\ file_i > Len(files)
    /\ local_pc' = "returned"
    /\ log' = Append(log, <<"INFO", "Found local tracks", Len(local_tracks)>>)
    /\ UNCHANGED <<files, file_i, local_tracks, error, missing_tracks>>
    /\ UNCHANGED <<fetchVars, recVars, pubVars>>

InitScan ==
    /\ files \in SeqsUpTo(FilePool, MaxFiles)
    /\ file_i = 1 /\ local_pc = "loop" /\ local_tracks = <<>>
    /\ missing_tracks = <<>> /\ log = <<>> /\ error = "none"
    /\ FetchIdle /\ RecIdle /\ PubIdle

NextScan == ScanFile \/ ScanReturn

SpecScan == InitScan /\ [][NextScan]_vars

(***************************************************************************)
(* create_missing_playlist (lines 104-125).  Each remote call is recorded  *)
(* with its arguments and its outcome; a remote call may fail, which       *)
(* raises.  remote_playlists is the account: one entry per playlist        *)
(* created, with the identifiers added to it.                              *)
(***************************************************************************)

\* The labels handed to the publisher: "a - x" and "b - z".
PubLabels == { TrackLabel(<<97>>, <<120>>), TrackLabel(<<98>>, <<122>>) }

\* The identifiers a catalog search may give.
UriPool == {"uri1", "uri2"}

\* Mutant of NotTruthy: the guard of line 106 never holds.
NotTruthyNever(list) == FALSE

\* "not missing_tracks", "if uris:" negated -- an empty list is false.
NotTruthy(list) == list = <<>>

\* Mutant of CollectUri: the identifier is put in front.
CollectUriFront(list, uri) == <<uri>> \o list

\* Line 117: uris.append(...)
CollectUri(list, uri) == Append(list, uri)

\* Mutant of HasUris: "if uris:" left out, the batch is always sent.
HasUrisAlways(list) == TRUE

\* Line 119: if uris
HasUris(list) == ~NotTruthy(list)

\* Lines 106-110: the guard, then the user lookup sp.me().
PubStart ==
    /\ pub_pc = "start"
    /\ IF NotTruthy(missing_tracks)
       THEN /\ log' = Append(log, <<"INFO", "No missing tracks to add.", 0>>)
            /\ pub_ret' = None
            /\ pub_pc' = "returned"
            /\ UNCHANGED <<calls, error>>
       ELSE /\ \/ /\ calls' = Append(calls, [op |-> "me", resp |-> "user"])
                  /\ pub_pc' = "create"
                  /\ UNCHANGED error
               \/ /\ calls' = Append(calls, [op |-> "me", resp |-> "raised"])
                  /\ pub_pc' = "raised"
                  /\ error' = "network"
            /\ UNCHANGED <<log, pub_ret>>
    /\ UNCHANGED <<pub_i, uris, new_playlist, remote_playlists>>
    /\ UNCHANGED <<local_tracks, missing_tracks>>
    /\ UNCHANGED <<fetchVars, scanVars, recVars>>

\* Lines 111-112: sp.user_playlist_create(user_id, "Missing Songs", public=False).
PubCreate ==
    /\ pub_pc = "create"
    /\ LET call == [op |-> "user_playlist_create", user |-> "user",
                    name |-> "Missing Songs", public |-> FALSE]
       IN  \/ /\ calls' = Append(calls, call @@ [resp |-> "playlist"])
              /\ new_playlist' = "playlist"
              /\ remote_playlists' =
                     Append(remote_playlists,
                            [name |-> "Missing Songs", public |-> FALSE, items |-> <<>>])
              /\ pub_pc' = "search"
              /\ UNCHANGED error
           \/ /\ calls' = Append(calls, call @@ [resp |-> "raised"])
              /\ pub_pc' = "raised"
              /\ error' = "network"
              /\ UNCHANGED <<new_playlist, remote_playlists>>
    /\ uris' = <<>>
    /\ UNCHANGED <<pub_i, pub_ret, log, local_tracks, missing_tracks>>
    /\ UNCHANGED <<fetchVars, scanVars, recVars>>

\* Lines 114-117: one turn of the loop: sp.search(q=item, type="track", limit=1).
PubSearch ==
    /\ pub_pc = "search"
    /\ pub_i <= Len(missing_tracks)
    /\ LET call == [op |-> "search", q |-> missing_tracks[pub_i],
                    type |-> "track", limit |-> 1]
       IN  \/ \E u \in UriPool :
                  /\ calls' = Append(calls, call @@ [resp |-> u])
                  /\ uris' = CollectUri(uris, u)
                  /\ pub_i' = pub_i + 1
                  /\ UNCHANGED <<pub_pc, error>>
           \/ /\ calls' = Append(calls, call @@ [resp |-> "no result"])
              /\ pub_i' = pub_i + 1
              /\ UNCHANGED <<uris, pub_pc, error>>
           \/ /\ calls' = Append(calls, call @@ [resp |-> "raised"])
              /\ pub_pc' = "raised"
              /\ error' = "network"
              /\ UNCHANGED <<uris, pub_i>>
    /\ UNCHANGED <<new_playlist, remote_playlists, pub_ret, log>>
    /\ UNCHANGED <<local_tracks, missing_tracks>>
    /\ UNCHANGED <<fetchVars, scanVars, recVars>>

\* Lines 119-125: after the loop, the batch sp.playlist_add_items or the
\* warning, and the return.
PubFinish ==
    /\ pub_pc = "search"
    /\ pub_i > Len(missing_tracks)
    /\ IF HasUris(uris)
       THEN LET call == [op |-> "playlist_add_items", playlist |-> new_playlist,
                         items |-> uris]
            IN  \/ /\ calls' = Append(calls, call @@ [resp |-> "ok"])
                   /\ remote_playlists' =
                          [remote_playlists EXCEPT ![Len(remote_playlists)].items = @ \o uris]
                   /\ log' = Append(log, <<"INFO", "Created new playlist", Len(uris)>>)
                   /\ pub_ret' = new_playlist
                   /\ pub_pc' = "returned"
                   /\ UNCHANGED error
                \/ /\ calls' = Append(calls, call @@ [resp |-> "raised"])
                   /\ pub_pc' = "raised"
                   /\ error' = "network"
                   /\ UNCHANGED <<remote_playlists, log, pub_ret>>
       ELSE /\ log' = Append(log, <<"WARNING", "No URIs found for missing tracks.", 0>>)
            /\ pub_ret' = new_playlist
            /\ pub_pc' = "returned"
            /\ UNCHANGED <<calls, remote_playlists, error>>
    /\ UNCHANGED <<pub_i, uris, new_playlist, local_tracks, missing_tracks>>
    /\ UNCHANGED <<fetchVars, scanVars, recVars>>

InitPublish ==
    /\ missing_tracks \in SeqsUpTo(PubLabels, MaxMissing)
    /\ pub_pc = "start" /\ pub_i = 1 /\ uris = <<>> /\ new_playlist = None
    /\ pub_ret = None /\ calls = <<>> /\ remote_playlists = <<>>
    /\ local_tracks = <<>> /\ log = <<>> /\ error = "none"
    /\ FetchIdle /\ ScanIdle /\ RecIdle

NextPublish == PubStart \/ PubCreate \/ PubSearch \/ PubFinish

SpecPublish == InitPublish /\ [][NextPublish]_vars

(***************************************************************************)
(* Properties of find_missing_tracks, checked under SpecReconcile.         *)
(***************************************************************************)

\* The score of the remote label r against the k-th local label, computed
\* without cutoff.
ScoreAgainst(r, loc, k) == token_sort_ratio(r, loc[k], ScoreZero)

\* The best score of r over all local labels is strictly below t.
BestScoreBelow(r, loc, t) ==
    \E m \in DOMAIN loc :
        /\ \A k \in DOMAIN loc : ~ScoreLess(ScoreAgainst(r, loc, m), ScoreAgainst(r, loc, k))
        /\ ScoreAgainst(r, loc, m).num < t * ScoreAgainst(r, loc, m).den

\* C1: after a call, a remote label is in the Missing Set if and only if the
\* local inventory is empty or the label's maximum similarity score over all
\* local labels is strictly below the threshold.
C1_MissingIffNoAdequateMatch ==
    ncalls >= 1 =>
        \A i \in DOMAIN spotify_tracks :
            (spotify_tracks[i] \in Range(missing_tracks))
                <=> (local_tracks = <<>>
                     \/ BestScoreBelow(spotify_tracks[i], local_tracks, threshold))

\* A call that classified one label as missing and another as present, the
\* latter with a best score equal to the threshold.
C1_Witness ==
    /\ ncalls >= 1
    /\ local_tracks # <<>>
    /\ missing_tracks # <<>>
    /\ \E i \in DOMAIN spotify_tracks :
           /\ spotify_tracks[i] \notin Range(missing_tracks)
           /\ \E k \in DOMAIN local_tracks :
                  ScoreEq(ScoreAgainst(spotify_tracks[i], local_tracks, k),
                          [num |-> threshold, den |-> 1])
           /\ ~ \E k \in DOMAIN local_tracks :
                  ScoreLess([num |-> threshold, den |-> 1],
                            ScoreAgainst(spotify_tracks[i], local_tracks, k))

\* a is b with some elements left out, the others in their order.
RECURSIVE IsSubsequence(_, _)
IsSubsequence(a, b) ==
    IF a = <<>> THEN TRUE
    ELSE IF b = <<>> THEN FALSE
    ELSE IF Head(a) = Head(b) THEN IsSubsequence(Tail(a), Tail(b))
    ELSE IsSubsequence(a, Tail(b))

Count(s, x) == Cardinality({i \in DOMAIN s : s[i] = x})

\* C2: the Missing Set is an order-preserving sub-sequence of the remote
\* inventory, and a missing label occurs in it as often as in the remote
\* inventory.
C2_OrderPreservingSubsequence ==
    ncalls >= 1 =>
        /\ IsSubsequence(missing_tracks, spotify_tracks)
        /\ \A x \in Range(missing_tracks) :
               Count(missing_tracks, x) = Count(spotify_tracks, x)

\* A call whose Missing Set leaves a present label out, holds two different
\* labels or the same label twice.
C2_Witness ==
    /\ ncalls >= 1
    /\ Len(missing_tracks) = 2
    /\ Len(spotify_tracks) = 3
    /\ missing_tracks[1] # missing_tracks[2]
    /\ spotify_tracks[2] \notin Range(missing_tracks)

\* C3: with an empty local inventory the Missing Set is the whole remote
\* inventory, whatever the threshold; with an empty remote inventory it is
\* empty.
C3_EmptyInventories ==
    ncalls >= 1 =>
        /\ local_tracks = <<>> => missing_tracks = spotify_tracks
        /\ spotify_tracks = <<>> => missing_tracks = <<>>

\* A call with an empty local inventory, several remote labels and the
\* threshold 0.
C3_Witness ==
    /\ ncalls >= 1
    /\ local_tracks = <<>>
    /\ Len(spotify_tracks) >= 2
    /\ threshold = 0
    /\ missing_tracks = spotify_tracks

\* C9: a call leaves both input lists (and the threshold) as they were, and
\* a second call with the same arguments returns the Missing Set the first
\* call returned.
C9_PureFunction ==
    [][/\ spotify_tracks' = spotify_tracks
       /\ local_tracks' = local_tracks
       /\ threshold' = threshold
       /\ (ncalls >= 1 => missing_tracks' = missing_tracks)]_vars

\* Two calls made, with a label found present and a label found missing.
C9_Witness ==
    /\ ncalls = 2
    /\ missing_tracks # <<>>
    /\ Len(missing_tracks) < Len(spotify_tracks)
    /\ prev_missing = missing_tracks

(***************************************************************************)
(* Properties of get_spotify_tracks, checked under SpecFetch(Fair).        *)
(***************************************************************************)

\* A track entry that is None, or holds a name and a first artist's name.
WellFormed(track) ==
    \/ track = NoneTrack
    \/ /\ {"name", "artists"} \subseteq DOMAIN track
       /\ track.artists # <<>>
       /\ "name" \in DOMAIN track.artists[1]

AllWellFormed(pages) ==
    \A p \in DOMAIN pages : \A k \in DOMAIN pages[p].items :
        WellFormed(pages[p].items[k].track)

\* "first artist - name" for each item of the list whose track is not None;
\* a malformed track yields no label.
RECURSIVE LabelsOfItems(_)
LabelsOfItems(items) ==
    IF items = <<>> THEN <<>>
    ELSE LET t == Head(items).track
         IN  (IF t = NoneTrack \/ ~WellFormed(t) THEN <<>>
              ELSE << t.artists[1].name \o <<32, 45, 32>> \o t.name >>)
             \o LabelsOfItems(Tail(items))

\* The labels of the pages, page after page.
RECURSIVE LabelsOfPages(_)
LabelsOfPages(pages) ==
    IF pages = <<>> THEN <<>>
    ELSE LabelsOfItems(Head(pages).items) \o LabelsOfPages(Tail(pages))

\* C6: the fetch ends; when it returns, the cursor of the last page it got is
\* exhausted and, the items being well formed, the list returned holds one
\* label per item whose track is not None, in page order then item order,
\* duplicates kept; on well-formed pages only a failed remote call keeps it
\* from returning.
C6_FollowsCursorToTheEnd ==
    /\ [](fetch_pc = "returned" =>
            /\ served # <<>>
            /\ ~served[Len(served)].next
            /\ AllWellFormed(served) => tracks = LabelsOfPages(served))
    /\ []((fetch_pc = "raised" /\ AllWellFormed(served)) => error = "network")
    /\ <>(fetch_pc \in {"returned", "raised"})

\* A fetch that returned after two pages or more, with an unavailable entry
\* skipped and the same label collected twice.
C6_Witness ==
    /\ fetch_pc = "returned"
    /\ Len(served) >= 2
    /\ \E p \in DOMAIN served : \E k \in DOMAIN served[p].items :
           served[p].items[k].track = NoneTrack
    /\ \E i, j \in DOMAIN tracks : i < j /\ tracks[i] = tracks[j]
    /\ \E i, j \in DOMAIN tracks : tracks[i] # tracks[j]

\* C7: a malformed item is skipped, never fatal: only a failed remote call
\* ends the fetch with an exception, and the list returned holds the labels
\* of the well-formed items of every page.
C7_MalformedItemSkipped ==
    /\ fetch_pc = "raised" => error = "network"
    /\ fetch_pc = "returned" => tracks = LabelsOfPages(served)

(***************************************************************************)
(* Properties of get_local_tracks, checked under SpecScan.                 *)
(***************************************************************************)

\* The name ends in .mp3, .flac or .wav, letters in either case.
HasAudioExtension(name) ==
    \E ext \in { <<46, 109, 112, 51>>, <<46, 102, 108, 97, 99>>, <<46, 119, 97, 118>> } :
        /\ Len(name) >= Len(ext)
        /\ \A k \in 1..Len(ext) :
               LET c == name[Len(name) - Len(ext) + k]
               IN  c = ext[k] \/ (ext[k] >= 97 /\ ext[k] <= 122 /\ c = ext[k] - 32)

\* Tag extraction fails: the reader raises, or a tag holds an empty list.
ExtractionFails(meta) ==
    \/ meta.raises
    \/ "artist" \in DOMAIN meta /\ meta.artist = <<>>
    \/ "title" \in DOMAIN meta /\ meta.title = <<>>

\* The number of qualifying files among the first n.
QualifyingCount(fs, n) == Cardinality({j \in 1..n : HasAudioExtension(fs[j].name)})

\* C8: at every point of the scan the list holds exactly one label per
\* qualifying file examined and none for the other files; the label of a
\* qualifying file whose tag extraction fails is its bare file name; no file
\* raises, and the scan returns only after the last file.
C8_OneLabelPerAudioFile ==
    /\ error = "none"
    /\ local_pc = "returned" => file_i = Len(files) + 1
    /\ Len(local_tracks) = QualifyingCount(files, file_i - 1)
    /\ \A j \in 1..(file_i - 1) :
           (HasAudioExtension(files[j].name) /\ ExtractionFails(files[j].meta))
               => local_tracks[QualifyingCount(files, j)] = files[j].name

\* A scan that returned after a qualifying file in upper case whose
\* extraction failed, then a file that does not qualify, then a tagged one.
C8_Witness ==
    /\ local_pc = "returned"
    /\ Len(files) = 3
    /\ HasAudioExtension(files[1].name)
    /\ \E k \in DOMAIN files[1].name : files[1].name[k] >= 65 /\ files[1].name[k] <= 90
    /\ ExtractionFails(files[1].meta)
    /\ ~HasAudioExtension(files[2].name)
    /\ HasAudioExtension(files[3].name)
    /\ ~ExtractionFails(files[3].meta)
    /\ Len(local_tracks) = 2
    /\ local_tracks[1] = files[1].name
    /\ local_tracks[2] # files[3].name

(***************************************************************************)
(* Properties of create_missing_playlist, checked under SpecPublish.       *)
(***************************************************************************)

SearchCalls == SelectSeq(calls, LAMBDA c : c.op = "search")

\* The identifiers the searches gave, in the order of the searches.
RECURSIVE HitsOf(_)
HitsOf(cs) ==
    IF cs = <<>> THEN <<>>
    ELSE (IF Head(cs).op = "search" /\ Head(cs).resp \in UriPool
          THEN <<Head(cs).resp>> ELSE <<>>) \o HitsOf(Tail(cs))

\* C4: with an empty Missing Set the publisher makes no remote call, returns
\* None without an exception, and the account holds no new playlist.
C4_EmptyMissingSetIsNoOp ==
    (missing_tracks = <<>> /\ pub_pc # "start") =>
        /\ calls = <<>>
        /\ pub_pc = "returned"
        /\ pub_ret = None
        /\ error = "none"
        /\ remote_playlists = <<>>

\* The publisher has returned on an empty Missing Set.
C4_Witness ==
    /\ missing_tracks = <<>>
    /\ pub_pc = "returned"
    /\ Len(log) = 1

\* C5: when the Missing Set is not empty and every label was searched with no
\* result, the publisher ends by returning the playlist it created, which is
\* empty; add-items was never called, a warning was logged and no exception
\* was raised.
C5_NoSearchResultIsNotFatal ==
    (/\ missing_tracks # <<>>
     /\ Len(SearchCalls) = Len(missing_tracks)
     /\ \A k \in DOMAIN SearchCalls : SearchCalls[k].resp = "no result"
     /\ pub_pc \in {"returned", "raised"}) =>
        /\ pub_pc = "returned"
        /\ error = "none"
        /\ new_playlist # None
        /\ pub_ret = new_playlist
        /\ Len(remote_playlists) = 1
        /\ remote_playlists[1].items = <<>>
        /\ \A k \in DOMAIN calls : calls[k].op # "playlist_add_items"
        /\ \E k \in DOMAIN log : log[k][1] = "WARNING"

\* The publisher has returned after two searches or more, none with a result.
C5_Witness ==
    /\ pub_pc = "returned"
    /\ Len(missing_tracks) >= 2
    /\ Len(SearchCalls) = Len(missing_tracks)
    /\ \A k \in DOMAIN SearchCalls : SearchCalls[k].resp = "no result"

\* The remote calls made so far are in order, the playlist creation being
\* call number n + 1: no call follows a failed one; then one top-1 track
\* search per missing label, in Missing Set order; then at most one
\* add-items call, after the last search, to the playlist created, carrying
\* every identifier found in the order of the labels that gave them.  A
\* normal return has made the creation and every search, and a failed search
\* leaves the playlist created empty.
CallsInOrder(n) ==
    /\ \A k \in DOMAIN calls :
           /\ k < Len(calls) => calls[k].resp # "raised"
           /\ k = n + 1 =>
                  /\ calls[k].op = "user_playlist_create"
                  /\ calls[k].name = "Missing Songs"
                  /\ calls[k].public = FALSE
           /\ (k > n + 1 /\ k <= n + 1 + Len(missing_tracks)) =>
                  /\ calls[k].op = "search"
                  /\ calls[k].q = missing_tracks[k - n - 1]
                  /\ calls[k].type = "track"
                  /\ calls[k].limit = 1
           /\ k = n + 2 + Len(missing_tracks) =>
                  /\ calls[k].op = "playlist_add_items"
                  /\ calls[k].playlist = new_playlist
                  /\ calls[k].items = HitsOf(calls)
                  /\ calls[k].items # <<>>
    /\ Len(calls) <= n + 2 + Len(missing_tracks)
    /\ (pub_pc = "returned" /\ missing_tracks # <<>>) =>
           Len(calls) >= n + 1 + Len(missing_tracks)
    /\ (\E k \in DOMAIN calls : calls[k].op = "search" /\ calls[k].resp = "raised") =>
           /\ pub_pc = "raised"
           /\ Len(remote_playlists) = 1
           /\ remote_playlists[1].items = <<>>

\* C10 as stated: the playlist creation is the first remote call, followed by
\* the searches and the add-items call.
C10_CreationIsFirstCall == CallsInOrder(0)

\* C10 as amended: the first remote call is the user lookup, the playlist
\* creation is the second, followed by the searches and the add-items call.
C10_LookupThenCreation ==
    /\ calls # <<>> => calls[1].op = "me"
    /\ CallsInOrder(1)

\* The publisher has returned after a search with a result, one without and
\* one with another result, and an add-items call carrying both identifiers.
C10_Witness ==
    /\ pub_pc = "returned"
    /\ Len(missing_tracks) = 3
    /\ Len(calls) = 6
    /\ calls[3].resp = "uri2"
    /\ calls[4].resp = "no result"
    /\ calls[5].resp = "uri1"
    /\ calls[6].items = <<"uri2", "uri1">>
    /\ remote_playlists[1].items = <<"uri2", "uri1">>

=============================================================================
